---- MODULE Spec2Model ----
(***************************************************************************)
(* Model of the dynamic nginx route manager of forge                       *)
(* (api/internal/routes/routes.go) together with the HTTP handlers that    *)
(* call it (api/internal/handlers/routes.go), and of the handler that adds *)
(* a log source (api/internal/handlers/logsources.go).                     *)
(*                                                                         *)
(* Strings that the code inspects character by character (Path, Target)    *)
(* are sequences of one-character strings; a Name is an atomic string.     *)
(* Files are sequences of lines.  Every goroutine serving a request is a   *)
(* caller with a program counter; the steps between two program counters   *)
(* are the atomic steps of the code (a lock operation, a critical section, *)
(* a system call).                                                         *)
(***************************************************************************)
EXTENDS Integers, Sequences, FiniteSets, TLC

VARIABLES
    mgr,        \* "up": a Manager exists; "down": the process crashed; "failed": NewManager returned an error
    routes,     \* Manager.routes: map from name to Route
    mu,         \* Manager.mu: [w |-> holder of the write lock or NoCaller, r |-> set of read lock holders]
    pc,         \* per caller: the place of its goroutine in the code
    call,       \* per caller: the request being served and what it has returned so far
    snap,       \* per caller: the local slice `routes` built by save / regenerateNginx / List
    file,       \* the file at Manager.configPath (routes.yaml)
    artifact,   \* the file at Manager.nginxConf (generated nginx config)
    loaded,     \* the configuration the nginx process read at its last successful reload
    lastMut,    \* history: per name, the entry given to the last Add that stored it (NoRoute after a Remove)
    saveFailed, \* history: some save() of a finished Add or Remove returned an error
    crashInfo,  \* history: the saves that were in progress at the last crash
    ncalls,     \* number of requests started so far
    ncrash      \* number of crashes so far

vars == <<mgr, routes, mu, pc, call, snap, file, artifact, loaded, lastMut,
          saveFailed, crashInfo, ncalls, ncrash>>

----------------------------------------------------------------------------
(* Bounds and input sets *)

MaxCalls == 2
MaxCrashes == 1

Callers == {"c1", "c2"}
Rank == [c \in Callers |-> IF c = "c1" THEN 1 ELSE 2]
NoCaller == "nobody"

Names == {"a", "b"}

\* the names that the history variable lastMut follows: those of the requests,
\* and the name that is also the last segment of the reload URL
TrackedNames == Names \cup {"reload"}

Route(n, p, t, s) == [Name |-> n, Path |-> p, Target |-> t, StripPrefix |-> s]
NoRoute == Route("", <<>>, <<>>, FALSE)

\* the fields of logsources.LogSource that the handler reads
LogSource(n, p) == [Name |-> n, Path |-> p]
NoSource == LogSource("", <<>>)

\* the bodies POSTed to /api/v1/logs/sources: whether the JSON decodes, and
\* the source it decodes to
DecodeResults == {"decoded", "invalid", "too large"}
SourceInputs ==
    { LogSource("a", <<"p">>), LogSource("b", <<"p">>),
      LogSource("", <<"p">>), LogSource("a", <<>>) }

\* The request bodies POSTed to /api/v1/routes by concurrent clients: two
\* valid routes with one name, one with another name and the same path, and
\* one that fails validation.
RouteInputs ==
    { Route("a", <<"p">>, <<"t">>, TRUE),
      Route("a", <<"q", "/">>, <<"t", "/">>, FALSE),
      Route("b", <<"/", "p">>, <<"t", "/">>, FALSE),
      Route("a", <<"p">>, <<>>, FALSE) }

\* The request bodies of a single client: every combination of an absent or
\* present name, a path with or without its slashes, and a target.
PathInputs == { <<>>, <<"p">>, <<"/", "p">>, <<"p", "/">>, <<"/", "p", "/">>, <<"/">> }
TargetInputs == { <<>>, <<"t">>, <<"t", "/">> }
AllRoutes ==
    { Route(n, p, t, s) : n \in {"", "a"}, p \in PathInputs, t \in TargetInputs,
                           s \in BOOLEAN }

----------------------------------------------------------------------------
(* strings *)

HasPrefix(s, ch) == Len(s) >= 1 /\ s[1] = ch
HasSuffix(s, ch) == Len(s) >= 1 /\ s[Len(s)] = ch
TrimSuffix(s, ch) == IF HasSuffix(s, ch) THEN SubSeq(s, 1, Len(s) - 1) ELSE s

----------------------------------------------------------------------------
(* the map and its iteration *)

EmptyMap == [n \in {} |-> NoRoute]

MapSet(m, k, v) == [n \in (DOMAIN m) \cup {k} |-> IF n = k THEN v ELSE m[n]]
MapDelete(m, k) == [n \in (DOMAIN m) \ {k} |-> m[n]]

\* `for _, r := range m.routes { routes = append(routes, r) }`: Go leaves the
\* iteration order of a map unspecified, so every order is a possible slice.
RangeOrders(m) ==
    LET D == DOMAIN m
        n == Cardinality(D)
    IN  { [i \in 1..n |-> m[f[i]]] :
            f \in { g \in [1..n -> D] : \A i, j \in 1..n : i # j => g[i] # g[j] } }

----------------------------------------------------------------------------
(* routes.yaml: yaml.Marshal / yaml.Unmarshal of RoutesConfig *)

Line(k, v) == [key |-> k, val |-> v]

NoFile == [exists |-> FALSE, lines |-> <<>>, torn |-> FALSE]
EmptyFile == [exists |-> TRUE, lines |-> <<>>, torn |-> FALSE]

NameText(n) == IF n = "" THEN <<>> ELSE <<n>>
\* a marshaller that writes booleans as yes / no
BoolTextYesNo(b) == IF b THEN <<"yes">> ELSE <<"no">>

BoolText(b) == IF b THEN <<"true">> ELSE <<"false">>

RouteLines(r) ==
    << Line("name", NameText(r.Name)),
       Line("path", r.Path),
       Line("target", r.Target),
       Line("strip_prefix", BoolText(r.StripPrefix)) >>

RECURSIVE EntriesLines(_)
EntriesLines(rs) ==
    IF rs = <<>> THEN <<>> ELSE RouteLines(Head(rs)) \o EntriesLines(Tail(rs))

\* yaml.Marshal(&RoutesConfig{Routes: rs}): "routes: []" for an empty slice,
\* otherwise "routes:" followed by one four-line item per route.
Marshal(rs) ==
    IF rs = <<>> THEN << Line("routes", <<"[]">>) >>
    ELSE << Line("routes", <<>>) >> \o EntriesLines(rs)

TextName(v) == IF v = <<>> THEN "" ELSE v[1]
TextBool(v) == v = <<"true">>

\* Unmarshal into a struct whose Target field has another yaml tag
SetFieldWithoutTarget(r, ln) ==
    CASE ln.key = "path"         -> [r EXCEPT !.Path = ln.val]
      [] ln.key = "strip_prefix" -> [r EXCEPT !.StripPrefix = TextBool(ln.val)]
      [] OTHER                   -> r

SetField(r, ln) ==
    CASE ln.key = "path"         -> [r EXCEPT !.Path = ln.val]
      [] ln.key = "target"       -> [r EXCEPT !.Target = ln.val]
      [] ln.key = "strip_prefix" -> [r EXCEPT !.StripPrefix = TextBool(ln.val)]
      [] OTHER                   -> r

RECURSIVE ParseLines(_, _)
ParseLines(ls, acc) ==
    IF ls = <<>> THEN acc
    ELSE LET ln == Head(ls) IN
         IF ln.key = "routes" THEN ParseLines(Tail(ls), acc)
         ELSE IF ln.key = "name"
              THEN ParseLines(Tail(ls), Append(acc, [NoRoute EXCEPT !.Name = TextName(ln.val)]))
              ELSE ParseLines(Tail(ls),
                     [acc EXCEPT ![Len(acc)] = SetField(acc[Len(acc)], ln)])

\* A document parses when it is not torn (cut where the text left is not
\* yaml for a RoutesConfig) and every field line belongs to an item; a key
\* that is present without its later siblings leaves those fields at their
\* zero values.
Parses(f) ==
    /\ ~f.torn
    /\ \A i \in 1..Len(f.lines) :
         f.lines[i].key \notin {"routes", "name"} =>
            \E j \in 1..(i - 1) : f.lines[j].key = "name"

\* yaml.Unmarshal(data, &cfg): the slice cfg.Routes
Unmarshal(f) == ParseLines(f.lines, <<>>)

\* a load that files every item under the name of the first item of the file
RECURSIVE LoadRoutesUnderFirstName(_, _)
LoadRoutesUnderFirstName(rs, m) ==
    IF rs = <<>> THEN m
    ELSE LET k == IF DOMAIN m = {} THEN Head(rs).Name ELSE CHOOSE n \in DOMAIN m : TRUE
         IN  LoadRoutesUnderFirstName(Tail(rs), MapSet(m, k, Head(rs)))

RECURSIVE LoadRoutes(_, _)
LoadRoutes(rs, m) ==
    IF rs = <<>> THEN m
    ELSE LoadRoutes(Tail(rs), MapSet(m, Head(rs).Name, Head(rs)))

\* a write(2) of data at offset 0 of a file that holds old
Overlay(old, data) ==
    IF Len(old) > Len(data) THEN data \o SubSeq(old, Len(data) + 1, Len(old)) ELSE data

----------------------------------------------------------------------------
(* the generated nginx configuration *)

NoArtifact == [exists |-> FALSE, text |-> <<>>]
EmptyArtifact == [exists |-> TRUE, text |-> <<>>]

HeaderBlock == [kind |-> "header", name |-> "", location |-> <<>>, proxy_pass |-> <<>>]

\* a renderer that writes the Target as it was given
ProxyPassAsGiven(r) == r.Target

ProxyPass(r) ==
    IF r.StripPrefix
    THEN IF ~HasSuffix(r.Target, "/") THEN r.Target \o <<"/">> ELSE r.Target
    ELSE TrimSuffix(r.Target, "/")

LocationBlock(r) ==
    [kind |-> "location", name |-> r.Name, location |-> r.Path, proxy_pass |-> ProxyPass(r)]

\* a loop that stops one route early
RECURSIVE LocationBlocksOffByOne(_)
LocationBlocksOffByOne(rs) ==
    IF Len(rs) <= 1 THEN <<>>
    ELSE <<LocationBlock(Head(rs))>> \o LocationBlocksOffByOne(Tail(rs))

RECURSIVE LocationBlocks(_)
LocationBlocks(rs) ==
    IF rs = <<>> THEN <<>> ELSE <<LocationBlock(Head(rs))>> \o LocationBlocks(Tail(rs))

generateNginxConfig(rs) == <<HeaderBlock>> \o LocationBlocks(rs)

----------------------------------------------------------------------------
(* Manager.Add: validation and normalisation *)

ErrNil == "nil"
ErrName == "route name is required"
ErrPath == "route path is required"
ErrTarget == "route target is required"
ErrNotFound == "route not found"
ErrSaveMkdir == "save: mkdir failed"
ErrSaveOpen == "save: open failed"
ErrSaveWrite == "save: write failed"
ErrNginxMkdir == "nginx conf: mkdir failed"
ErrNginxOpen == "nginx conf: open failed"
ErrNginxWrite == "nginx conf: write failed"
ErrReload == "nginx reload failed"
ErrInvalidJSON == "Invalid JSON"
ErrBodyTooLarge == "Request body too large"
ErrSourceName == "name is required"
ErrSourcePath == "path is required"
ErrSourceAdd == "Failed to add source"
ErrPromtailReload == "Promtail reload failed"

\* Add without the check of Target
ValidateNoTarget(route) ==
    IF route.Name = "" THEN ErrName
    ELSE IF route.Path = <<>> THEN ErrPath
    ELSE ErrNil

Validate(route) ==
    IF route.Name = "" THEN ErrName
    ELSE IF route.Path = <<>> THEN ErrPath
    ELSE IF route.Target = <<>> THEN ErrTarget
    ELSE ErrNil

\* Add without the second check: the trailing slash is never added
NormalizePathNoTrailing(p) == IF ~HasPrefix(p, "/") THEN <<"/">> \o p ELSE p

\* Add that looks for the trailing slash after the first character only, so
\* that the one-character Path "/" gets a second slash
NormalizePathSlashCountedOnce(p) ==
    LET q == IF ~HasPrefix(p, "/") THEN <<"/">> \o p ELSE p
    IN  IF ~HasSuffix(Tail(q), "/") THEN q \o <<"/">> ELSE q

NormalizePath(p) ==
    LET q == IF ~HasPrefix(p, "/") THEN <<"/">> \o p ELSE p
    IN  IF ~HasSuffix(q, "/") THEN q \o <<"/">> ELSE q

Normalize(route) == [route EXCEPT !.Path = NormalizePath(route.Path)]

----------------------------------------------------------------------------
(* requests and responses *)

\* op, route, name: the request.  arg: Add's own copy of the route, normalised.
\* err, status, out: what the manager call returned and the handler answered.
\* History kept for the properties: did, the effects this call has had so far
\* ("store", "persist", "render", "reload"); conc, whether another Add or
\* Remove was in flight at some moment of this one; old, the file as it was
\* when this call's save opened it; duringIO, whether this List or Get
\* arrived while another caller was in a file operation or in the reload.
\* source, ok, warning: the decoded body of a POST /api/v1/logs/sources and
\* the "ok" and "warning" keys of its JSON answer.  superseded: whether an
\* Add or Remove has started since this call returned.
NoCall ==
    [op |-> "none", route |-> NoRoute, arg |-> NoRoute, name |-> "", err |-> ErrNil,
     status |-> 0, out |-> <<>>, did |-> <<>>, conc |-> FALSE, old |-> NoFile,
     added |-> NoRoute, duringIO |-> FALSE, source |-> NoSource, ok |-> FALSE,
     warning |-> FALSE, superseded |-> FALSE]

\* the places where a caller is in os.MkdirAll / os.WriteFile or in docker exec
PipelinePcs == {"save_open", "save_write", "regen_open", "regen_write", "reload"}

ReadOps == {"List", "Get"}

MutationOps == {"Add", "Remove"}

\* caller d is inside Manager.Add or Manager.Remove
InMutation(d) == call[d].op \in MutationOps /\ pc[d] \notin {"idle", "ret"}

\* The status the handler writes for the error the manager call returned:
\* AddRoute, DeleteRoute, ReloadNginx, the GET branch of HandleRoutes, ListRoutes.
HandlerStatus(op, err) ==
    CASE op = "Add"    -> IF err # ErrNil THEN 400 ELSE 201
      [] op = "Remove" -> IF err # ErrNil THEN 404 ELSE 200
      [] op = "Reload" -> IF err # ErrNil THEN 500 ELSE 200
      [] op = "Get"    -> IF err # ErrNil THEN 404 ELSE 200
      [] OTHER         -> 200

\* The "route" key of AddRoute's 201 answer: the handler encodes its own
\* variable, which Add received by value and did not change.
ResponseRoute(c) == call[c].route

\* the manager call of caller c returns err and the handler writes its response
Returned(c, err) ==
    [call[c] EXCEPT !.err = err, !.status = HandlerStatus(call[c].op, err), !.old = NoFile]

\* the local slice of caller c goes out of scope
Dropped(c) == [snap EXCEPT ![c] = <<>>]

Did(c, what) == [call[c] EXCEPT !.did = Append(@, what)]

\* caller c starts a request cl; a mutation that starts marks the mutations in flight
Start(c, cl) ==
    LET others == \E d \in Callers \ {c} : InMutation(d)
        inIO   == \E d \in Callers \ {c} : pc[d] \in PipelinePcs
        mine   == [cl EXCEPT !.conc = (cl.op \in MutationOps) /\ others,
                             !.duringIO = (cl.op \in ReadOps) /\ inIO]
    IN  [d \in Callers |->
            IF d = c THEN mine
            ELSE IF cl.op \in MutationOps /\ InMutation(d)
                 THEN [call[d] EXCEPT !.conc = TRUE]
                 ELSE IF cl.op \in MutationOps /\ pc[d] = "ret"
                      THEN [call[d] EXCEPT !.superseded = TRUE]
                      ELSE call[d]]

\* net/http serves each request on a goroutine of its own: which goroutine it
\* is carries no state, so the next request goes to the first free caller.
MayStart(c) ==
    /\ mgr = "up"
    /\ pc[c] = "idle"
    /\ \A d \in Callers : pc[d] = "idle" => Rank[c] <= Rank[d]
    /\ ncalls < MaxCalls

----------------------------------------------------------------------------
(* sync.RWMutex *)

Unlocked == [w |-> NoCaller, r |-> {}]

\* a read lock that does not wait for the writer
CanRLockAnyTime == TRUE

CanLock == mu.w = NoCaller /\ mu.r = {}
CanRLock == mu.w = NoCaller

Lock(c) == [mu EXCEPT !.w = c]
Unlock(c) == [mu EXCEPT !.w = NoCaller]
RLock(c) == [mu EXCEPT !.r = @ \cup {c}]
RUnlock(c) == [mu EXCEPT !.r = @ \ {c}]

----------------------------------------------------------------------------
Init ==
    /\ mgr = "up"
    /\ routes = EmptyMap
    /\ mu = Unlocked
    /\ pc = [c \in Callers |-> "idle"]
    /\ call = [c \in Callers |-> NoCall]
    /\ snap = [c \in Callers |-> <<>>]
    /\ file = NoFile
    /\ artifact = NoArtifact
    /\ loaded = <<>>
    /\ lastMut = [n \in TrackedNames |-> NoRoute]
    /\ saveFailed = FALSE
    /\ crashInfo = {}
    /\ ncalls = 0
    /\ ncrash = 0

----------------------------------------------------------------------------
(* POST /api/v1/routes: RoutesHandler.AddRoute and Manager.Add *)

\* The handler decodes the body and calls Add, which validates and normalises
\* its copy of the route before it touches the lock.
AddRoute(c, route) ==
    /\ MayStart(c)
    /\ ncalls' = ncalls + 1
    /\ LET cl == [NoCall EXCEPT !.op = "Add", !.route = route, !.name = route.Name,
                                !.arg = Normalize(route)]
           e  == Validate(route)
       IN  IF e # ErrNil
           THEN /\ call' = [Start(c, cl) EXCEPT ![c].err = e,
                                               ![c].status = HandlerStatus("Add", e)]
                /\ pc' = [pc EXCEPT ![c] = "ret"]
           ELSE /\ call' = Start(c, cl)
                /\ pc' = [pc EXCEPT ![c] = "add_lock"]
    /\ UNCHANGED <<mgr, routes, mu, snap, file, artifact, loaded, lastMut,
                   saveFailed, crashInfo, ncrash>>

AddLock(c) ==
    /\ pc[c] = "add_lock"
    /\ CanLock
    /\ mu' = Lock(c)
    /\ pc' = [pc EXCEPT ![c] = "add_store"]
    /\ UNCHANGED <<mgr, routes, call, snap, file, artifact, loaded, lastMut,
                   saveFailed, crashInfo, ncalls, ncrash>>

\* Add that assigns a fresh map holding only the new route
AddStoreFreshMap(c) ==
    /\ pc[c] = "add_store"
    /\ routes' = MapSet(EmptyMap, call[c].arg.Name, call[c].arg)
    /\ lastMut' = [lastMut EXCEPT ![call[c].arg.Name] = call[c].route]
    /\ mu' = Unlock(c)
    /\ call' = [call EXCEPT ![c] = Did(c, "store")]
    /\ pc' = [pc EXCEPT ![c] = "save_rlock"]
    /\ UNCHANGED <<mgr, snap, file, artifact, loaded, saveFailed, crashInfo, ncalls, ncrash>>

\* Add that keeps the entry already stored under the name
AddStoreKeepsFirst(c) ==
    /\ pc[c] = "add_store"
    /\ routes' = IF call[c].arg.Name \in DOMAIN routes THEN routes
                 ELSE MapSet(routes, call[c].arg.Name, call[c].arg)
    /\ lastMut' = [lastMut EXCEPT ![call[c].arg.Name] = call[c].route]
    /\ mu' = Unlock(c)
    /\ call' = [call EXCEPT ![c] = Did(c, "store")]
    /\ pc' = [pc EXCEPT ![c] = "save_rlock"]
    /\ UNCHANGED <<mgr, snap, file, artifact, loaded, saveFailed, crashInfo, ncalls, ncrash>>

\* Add that returns from the locked section without m.mu.Unlock()
AddStoreKeepsLock(c) ==
    /\ pc[c] = "add_store"
    /\ routes' = MapSet(routes, call[c].arg.Name, call[c].arg)
    /\ lastMut' = [lastMut EXCEPT ![call[c].arg.Name] = call[c].route]
    /\ call' = [call EXCEPT ![c] = Did(c, "store")]
    /\ pc' = [pc EXCEPT ![c] = "save_rlock"]
    /\ UNCHANGED <<mgr, mu, snap, file, artifact, loaded, saveFailed, crashInfo, ncalls, ncrash>>

\* Add that refuses a Path which an entry of another name already has
AddStoreRejectsSamePath(c) ==
    /\ pc[c] = "add_store"
    /\ mu' = Unlock(c)
    /\ IF \E n \in DOMAIN routes : n # call[c].arg.Name /\ routes[n].Path = call[c].arg.Path
       THEN /\ call' = [call EXCEPT ![c] = Returned(c, ErrPath)]
            /\ pc' = [pc EXCEPT ![c] = "ret"]
            /\ UNCHANGED <<routes, lastMut>>
       ELSE /\ routes' = MapSet(routes, call[c].arg.Name, call[c].arg)
            /\ lastMut' = [lastMut EXCEPT ![call[c].arg.Name] = call[c].route]
            /\ call' = [call EXCEPT ![c] = Did(c, "store")]
            /\ pc' = [pc EXCEPT ![c] = "save_rlock"]
    /\ UNCHANGED <<mgr, snap, file, artifact, loaded, saveFailed, crashInfo, ncalls, ncrash>>

\* m.routes[route.Name] = route; m.mu.Unlock()
AddStore(c) ==
    /\ pc[c] = "add_store"
    /\ routes' = MapSet(routes, call[c].arg.Name, call[c].arg)
    /\ lastMut' = [lastMut EXCEPT ![call[c].arg.Name] = call[c].route]
    /\ mu' = Unlock(c)
    /\ call' = [call EXCEPT ![c] = Did(c, "store")]
    /\ pc' = [pc EXCEPT ![c] = "save_rlock"]
    /\ UNCHANGED <<mgr, snap, file, artifact, loaded, saveFailed, crashInfo, ncalls, ncrash>>

----------------------------------------------------------------------------
(* DELETE /api/v1/routes/{name}: RoutesHandler.DeleteRoute and Manager.Remove *)

DeleteRoute(c, name) ==
    /\ MayStart(c)
    /\ ncalls' = ncalls + 1
    /\ call' = Start(c, [NoCall EXCEPT !.op = "Remove", !.name = name])
    /\ pc' = [pc EXCEPT ![c] = "rm_lock"]
    /\ UNCHANGED <<mgr, routes, mu, snap, file, artifact, loaded, lastMut,
                   saveFailed, crashInfo, ncrash>>

RemoveLock(c) ==
    /\ pc[c] = "rm_lock"
    /\ CanLock
    /\ mu' = Lock(c)
    /\ pc' = [pc EXCEPT ![c] = "rm_check"]
    /\ UNCHANGED <<mgr, routes, call, snap, file, artifact, loaded, lastMut,
                   saveFailed, crashInfo, ncalls, ncrash>>

\* Remove that runs the pipeline although the name was absent
RemoveCheckAlwaysSaves(c) ==
    /\ pc[c] = "rm_check"
    /\ mu' = Unlock(c)
    /\ routes' = MapDelete(routes, call[c].name)
    /\ lastMut' = [n \in TrackedNames |-> IF n = call[c].name THEN NoRoute ELSE lastMut[n]]
    /\ call' = [call EXCEPT ![c] = IF call[c].name \in DOMAIN routes
                                   THEN Did(c, "store") ELSE call[c]]
    /\ pc' = [pc EXCEPT ![c] = "save_rlock"]
    /\ UNCHANGED <<mgr, snap, file, artifact, loaded, saveFailed, crashInfo, ncalls, ncrash>>

\* Remove that replaces the map by an empty one instead of deleting one key
RemoveCheckClearsMap(c) ==
    /\ pc[c] = "rm_check"
    /\ mu' = Unlock(c)
    /\ IF call[c].name \notin DOMAIN routes
       THEN /\ call' = [call EXCEPT ![c] = Returned(c, ErrNotFound)]
            /\ pc' = [pc EXCEPT ![c] = "ret"]
            /\ UNCHANGED <<routes, lastMut>>
       ELSE /\ routes' = EmptyMap
            /\ lastMut' = [n \in TrackedNames |-> NoRoute]
            /\ call' = [call EXCEPT ![c] = Did(c, "store")]
            /\ pc' = [pc EXCEPT ![c] = "save_rlock"]
    /\ UNCHANGED <<mgr, snap, file, artifact, loaded, saveFailed, crashInfo, ncalls, ncrash>>


\* Remove that unlocks after the check and deletes later, without the lock
RemoveCheckThenDelete(c) ==
    /\ pc[c] = "rm_check"
    /\ \/ /\ call[c].did = <<>>
          /\ mu' = Unlock(c)
          /\ IF call[c].name \notin DOMAIN routes
             THEN /\ call' = [call EXCEPT ![c] = Returned(c, ErrNotFound)]
                  /\ pc' = [pc EXCEPT ![c] = "ret"]
             ELSE /\ call' = [call EXCEPT ![c] = Did(c, "store")]
                  /\ UNCHANGED pc
          /\ UNCHANGED <<routes, lastMut>>
       \/ /\ call[c].did # <<>>
          /\ routes' = MapDelete(routes, call[c].name)
          /\ lastMut' = [n \in TrackedNames |-> IF n = call[c].name THEN NoRoute ELSE lastMut[n]]
          /\ pc' = [pc EXCEPT ![c] = "save_rlock"]
          /\ UNCHANGED <<mu, call>>
    /\ UNCHANGED <<mgr, snap, file, artifact, loaded, saveFailed, crashInfo, ncalls, ncrash>>

\* Remove that returns the not-found error without m.mu.Unlock()
RemoveCheckNotFoundKeepsLock(c) ==
    /\ pc[c] = "rm_check"
    /\ IF call[c].name \notin DOMAIN routes
       THEN /\ call' = [call EXCEPT ![c] = Returned(c, ErrNotFound)]
            /\ pc' = [pc EXCEPT ![c] = "ret"]
            /\ UNCHANGED <<routes, lastMut, mu>>
       ELSE /\ mu' = Unlock(c)
            /\ routes' = MapDelete(routes, call[c].name)
            /\ lastMut' = [n \in TrackedNames |->
                             IF n = call[c].name THEN NoRoute ELSE lastMut[n]]
            /\ call' = [call EXCEPT ![c] = Did(c, "store")]
            /\ pc' = [pc EXCEPT ![c] = "save_rlock"]
    /\ UNCHANGED <<mgr, snap, file, artifact, loaded, saveFailed, crashInfo, ncalls, ncrash>>

\* the existence check, the delete and the unlock of Remove
RemoveCheck(c) ==
    /\ pc[c] = "rm_check"
    /\ mu' = Unlock(c)
    /\ IF call[c].name \notin DOMAIN routes
       THEN /\ call' = [call EXCEPT ![c] = Returned(c, ErrNotFound)]
            /\ pc' = [pc EXCEPT ![c] = "ret"]
            /\ UNCHANGED <<routes, lastMut>>
       ELSE /\ routes' = MapDelete(routes, call[c].name)
            /\ lastMut' = [n \in TrackedNames |-> IF n = call[c].name THEN NoRoute ELSE lastMut[n]]
            /\ call' = [call EXCEPT ![c] = Did(c, "store")]
            /\ pc' = [pc EXCEPT ![c] = "save_rlock"]
    /\ UNCHANGED <<mgr, snap, file, artifact, loaded, saveFailed, crashInfo, ncalls, ncrash>>

----------------------------------------------------------------------------
(* Manager.save *)

saveRLock(c) ==
    /\ pc[c] = "save_rlock"
    /\ CanRLock
    /\ mu' = RLock(c)
    /\ pc' = [pc EXCEPT ![c] = "save_snap"]
    /\ UNCHANGED <<mgr, routes, call, snap, file, artifact, loaded, lastMut,
                   saveFailed, crashInfo, ncalls, ncrash>>

\* save with `defer m.mu.RUnlock()`: the read lock is kept until save returns
saveSnapshotDeferUnlock(c) ==
    /\ pc[c] = "save_snap"
    /\ \E s \in RangeOrders(routes) : snap' = [snap EXCEPT ![c] = s]
    /\ pc' = [pc EXCEPT ![c] = "save_open"]
    /\ UNCHANGED <<mgr, routes, mu, call, file, artifact, loaded, lastMut,
                   saveFailed, crashInfo, ncalls, ncrash>>

\* the copy loop and m.mu.RUnlock()
saveSnapshot(c) ==
    /\ pc[c] = "save_snap"
    /\ \E s \in RangeOrders(routes) : snap' = [snap EXCEPT ![c] = s]
    /\ mu' = RUnlock(c)
    /\ pc' = [pc EXCEPT ![c] = "save_open"]
    /\ UNCHANGED <<mgr, routes, call, file, artifact, loaded, lastMut,
                   saveFailed, crashInfo, ncalls, ncrash>>

\* save that undoes the caller's map mutation when it cannot open the file
saveOpenRollback(c) ==
    /\ pc[c] = "save_open"
    /\ \/ /\ file' = EmptyFile
          /\ call' = [call EXCEPT ![c] = [Did(c, "persist") EXCEPT !.old = file]]
          /\ pc' = [pc EXCEPT ![c] = "save_write"]
          /\ UNCHANGED <<saveFailed, routes, snap>>
       \/ /\ \E e \in {ErrSaveMkdir, ErrSaveOpen} :
                call' = [call EXCEPT ![c] = Returned(c, e)]
          /\ pc' = [pc EXCEPT ![c] = "ret"]
          /\ saveFailed' = TRUE
          /\ routes' = IF call[c].op = "Add" THEN MapDelete(routes, call[c].name) ELSE routes
          /\ snap' = Dropped(c)
          /\ UNCHANGED file
    /\ UNCHANGED <<mgr, mu, artifact, loaded, lastMut, crashInfo, ncalls, ncrash>>

\* Add and Remove that go on to regenerateNginx although save could not open the file
saveOpenIgnoresError(c) ==
    /\ pc[c] = "save_open"
    /\ \/ /\ file' = EmptyFile
          /\ call' = [call EXCEPT ![c] = [Did(c, "persist") EXCEPT !.old = file]]
          /\ pc' = [pc EXCEPT ![c] = "save_write"]
          /\ UNCHANGED <<saveFailed, snap>>
       \/ /\ pc' = [pc EXCEPT ![c] = "regen_rlock"]
          /\ saveFailed' = TRUE
          /\ snap' = Dropped(c)
          /\ UNCHANGED <<file, call>>
    /\ UNCHANGED <<mgr, routes, mu, artifact, loaded, lastMut, crashInfo, ncalls, ncrash>>

\* yaml.Marshal, os.MkdirAll and the open(O_WRONLY|O_CREATE|O_TRUNC) of os.WriteFile
saveOpen(c) ==
    /\ pc[c] = "save_open"
    /\ \/ /\ file' = EmptyFile
          /\ call' = [call EXCEPT ![c] = [Did(c, "persist") EXCEPT !.old = file]]
          /\ pc' = [pc EXCEPT ![c] = "save_write"]
          /\ UNCHANGED <<saveFailed, snap>>
       \/ /\ \E e \in {ErrSaveMkdir, ErrSaveOpen} :
                call' = [call EXCEPT ![c] = Returned(c, e)]
          /\ pc' = [pc EXCEPT ![c] = "ret"]
          /\ saveFailed' = TRUE
          /\ snap' = Dropped(c)
          /\ UNCHANGED file
    /\ UNCHANGED <<mgr, routes, mu, artifact, loaded, lastMut, crashInfo, ncalls, ncrash>>

\* the write(2) and close of os.WriteFile
saveWrite(c) ==
    /\ pc[c] = "save_write"
    /\ \/ /\ file' = [exists |-> TRUE, lines |-> Overlay(file.lines, Marshal(snap[c])),
                      torn |-> FALSE]
          /\ call' = [call EXCEPT ![c].old = NoFile]
          /\ pc' = [pc EXCEPT ![c] = "regen_rlock"]
          /\ UNCHANGED saveFailed
       \/ /\ call' = [call EXCEPT ![c] = Returned(c, ErrSaveWrite)]
          /\ pc' = [pc EXCEPT ![c] = "ret"]
          /\ saveFailed' = TRUE
          /\ UNCHANGED file
    /\ snap' = Dropped(c)
    /\ UNCHANGED <<mgr, routes, mu, artifact, loaded, lastMut, crashInfo, ncalls, ncrash>>

----------------------------------------------------------------------------
(* Manager.regenerateNginx *)

regenRLock(c) ==
    /\ pc[c] = "regen_rlock"
    /\ CanRLock
    /\ mu' = RLock(c)
    /\ pc' = [pc EXCEPT ![c] = "regen_snap"]
    /\ UNCHANGED <<mgr, routes, call, snap, file, artifact, loaded, lastMut,
                   saveFailed, crashInfo, ncalls, ncrash>>

regenSnapshot(c) ==
    /\ pc[c] = "regen_snap"
    /\ \E s \in RangeOrders(routes) : snap' = [snap EXCEPT ![c] = s]
    /\ mu' = RUnlock(c)
    /\ pc' = [pc EXCEPT ![c] = "regen_open"]
    /\ UNCHANGED <<mgr, routes, call, file, artifact, loaded, lastMut,
                   saveFailed, crashInfo, ncalls, ncrash>>

\* generateNginxConfig, os.MkdirAll and the open of os.WriteFile
regenOpen(c) ==
    /\ pc[c] = "regen_open"
    /\ \/ /\ artifact' = EmptyArtifact
          /\ call' = [call EXCEPT ![c] = Did(c, "render")]
          /\ pc' = [pc EXCEPT ![c] = "regen_write"]
          /\ UNCHANGED snap
       \/ /\ \E e \in {ErrNginxMkdir, ErrNginxOpen} :
                call' = [call EXCEPT ![c] = Returned(c, e)]
          /\ pc' = [pc EXCEPT ![c] = "ret"]
          /\ snap' = Dropped(c)
          /\ UNCHANGED artifact
    /\ UNCHANGED <<mgr, routes, mu, file, loaded, lastMut, saveFailed,
                   crashInfo, ncalls, ncrash>>

regenWrite(c) ==
    /\ pc[c] = "regen_write"
    /\ \/ /\ artifact' = [exists |-> TRUE,
                          text |-> Overlay(artifact.text, generateNginxConfig(snap[c]))]
          /\ pc' = [pc EXCEPT ![c] = "reload"]
          /\ UNCHANGED call
       \/ /\ call' = [call EXCEPT ![c] = Returned(c, ErrNginxWrite)]
          /\ pc' = [pc EXCEPT ![c] = "ret"]
          /\ UNCHANGED artifact
    /\ snap' = Dropped(c)
    /\ UNCHANGED <<mgr, routes, mu, file, loaded, lastMut, saveFailed,
                   crashInfo, ncalls, ncrash>>

----------------------------------------------------------------------------
(* Manager.Reload and POST /api/v1/routes/reload *)

ReloadNginx(c) ==
    /\ MayStart(c)
    /\ ncalls' = ncalls + 1
    /\ call' = Start(c, [NoCall EXCEPT !.op = "Reload"])
    /\ pc' = [pc EXCEPT ![c] = "reload"]
    /\ UNCHANGED <<mgr, routes, mu, snap, file, artifact, loaded, lastMut,
                   saveFailed, crashInfo, ncrash>>

\* Reload that also rewrites the generated file from the map
ReloadRerenders(c) ==
    /\ pc[c] = "reload"
    /\ \E s \in RangeOrders(routes) :
          artifact' = [exists |-> TRUE, text |-> generateNginxConfig(s)]
    /\ \/ /\ loaded' = artifact'.text
          /\ call' = [call EXCEPT ![c] = [Returned(c, ErrNil) EXCEPT !.did = Append(@, "reload")]]
       \/ /\ call' = [call EXCEPT ![c] = [Returned(c, ErrReload) EXCEPT !.did = Append(@, "reload")]]
          /\ UNCHANGED loaded
    /\ pc' = [pc EXCEPT ![c] = "ret"]
    /\ UNCHANGED <<mgr, routes, mu, snap, file, lastMut, saveFailed,
                   crashInfo, ncalls, ncrash>>

\* a reload after which nginx still runs the configuration it had
ReloadKeepsOld(c) ==
    /\ pc[c] = "reload"
    /\ \/ call' = [call EXCEPT ![c] = [Returned(c, ErrNil) EXCEPT !.did = Append(@, "reload")]]
       \/ call' = [call EXCEPT ![c] = [Returned(c, ErrReload) EXCEPT !.did = Append(@, "reload")]]
    /\ pc' = [pc EXCEPT ![c] = "ret"]
    /\ UNCHANGED <<mgr, routes, mu, snap, file, artifact, loaded, lastMut, saveFailed,
                   crashInfo, ncalls, ncrash>>

\* Reload that runs the docker exec a second time when the first one failed
ReloadRetriesOnce(c) ==
    /\ pc[c] = "reload"
    /\ \/ /\ loaded' = artifact.text
          /\ call' = [call EXCEPT ![c] = [Returned(c, ErrNil) EXCEPT !.did = Append(@, "reload")]]
          /\ pc' = [pc EXCEPT ![c] = "ret"]
       \/ /\ "reload" \in { call[c].did[i] : i \in 1..Len(call[c].did) }
          /\ call' = [call EXCEPT ![c] = [Returned(c, ErrReload) EXCEPT !.did = Append(@, "reload")]]
          /\ pc' = [pc EXCEPT ![c] = "ret"]
          /\ UNCHANGED loaded
       \/ /\ "reload" \notin { call[c].did[i] : i \in 1..Len(call[c].did) }
          /\ call' = [call EXCEPT ![c] = Did(c, "reload")]
          /\ UNCHANGED <<pc, loaded>>
    /\ UNCHANGED <<mgr, routes, mu, snap, file, artifact, lastMut, saveFailed,
                   crashInfo, ncalls, ncrash>>

\* docker exec forge-nginx nginx -s reload: on success nginx reads the
\* generated file as it is on disk now
Reload(c) ==
    /\ pc[c] = "reload"
    /\ \/ /\ loaded' = artifact.text
          /\ call' = [call EXCEPT ![c] = [Returned(c, ErrNil) EXCEPT !.did = Append(@, "reload")]]
       \/ /\ call' = [call EXCEPT ![c] = [Returned(c, ErrReload) EXCEPT !.did = Append(@, "reload")]]
          /\ UNCHANGED loaded
    /\ pc' = [pc EXCEPT ![c] = "ret"]
    /\ UNCHANGED <<mgr, routes, mu, snap, file, artifact, lastMut, saveFailed,
                   crashInfo, ncalls, ncrash>>

----------------------------------------------------------------------------
(* GET /api/v1/routes and GET /api/v1/routes/{name} *)

ListRoutes(c) ==
    /\ MayStart(c)
    /\ ncalls' = ncalls + 1
    /\ call' = Start(c, [NoCall EXCEPT !.op = "List"])
    /\ pc' = [pc EXCEPT ![c] = "list_rlock"]
    /\ UNCHANGED <<mgr, routes, mu, snap, file, artifact, loaded, lastMut,
                   saveFailed, crashInfo, ncrash>>

ListRLock(c) ==
    /\ pc[c] = "list_rlock"
    /\ CanRLock
    /\ mu' = RLock(c)
    /\ pc' = [pc EXCEPT ![c] = "list_read"]
    /\ UNCHANGED <<mgr, routes, call, snap, file, artifact, loaded, lastMut,
                   saveFailed, crashInfo, ncalls, ncrash>>

ListRead(c) ==
    /\ pc[c] = "list_read"
    /\ \E s \in RangeOrders(routes) :
          call' = [call EXCEPT ![c] = [Returned(c, ErrNil) EXCEPT !.out = s]]
    /\ mu' = RUnlock(c)
    /\ pc' = [pc EXCEPT ![c] = "ret"]
    /\ UNCHANGED <<mgr, routes, snap, file, artifact, loaded, lastMut,
                   saveFailed, crashInfo, ncalls, ncrash>>

GetRoute(c, name) ==
    /\ MayStart(c)
    /\ ncalls' = ncalls + 1
    /\ call' = Start(c, [NoCall EXCEPT !.op = "Get", !.name = name])
    /\ pc' = [pc EXCEPT ![c] = "get_rlock"]
    /\ UNCHANGED <<mgr, routes, mu, snap, file, artifact, loaded, lastMut,
                   saveFailed, crashInfo, ncrash>>

GetRLock(c) ==
    /\ pc[c] = "get_rlock"
    /\ CanRLock
    /\ mu' = RLock(c)
    /\ pc' = [pc EXCEPT ![c] = "get_read"]
    /\ UNCHANGED <<mgr, routes, call, snap, file, artifact, loaded, lastMut,
                   saveFailed, crashInfo, ncalls, ncrash>>

\* r, ok := m.routes[name]; the history field added keeps what the name was
\* last added with, as of this read
GetRead(c) ==
    /\ pc[c] = "get_read"
    /\ call' = [call EXCEPT ![c] =
                  IF call[c].name \in DOMAIN routes
                  THEN [Returned(c, ErrNil) EXCEPT !.out = <<routes[call[c].name]>>,
                                                   !.added = lastMut[call[c].name]]
                  ELSE [Returned(c, ErrNotFound) EXCEPT !.added = lastMut[call[c].name]]]
    /\ mu' = RUnlock(c)
    /\ pc' = [pc EXCEPT ![c] = "ret"]
    /\ UNCHANGED <<mgr, routes, snap, file, artifact, loaded, lastMut,
                   saveFailed, crashInfo, ncalls, ncrash>>

\* the response is written and the goroutine ends
Respond(c) ==
    /\ pc[c] = "ret"
    /\ pc' = [pc EXCEPT ![c] = "idle"]
    /\ call' = [call EXCEPT ![c] = NoCall]
    /\ UNCHANGED <<mgr, routes, mu, snap, file, artifact, loaded, lastMut, saveFailed,
                   crashInfo, ncalls, ncrash>>

----------------------------------------------------------------------------
(* process crash and restart: main calls NewManager, which calls load *)

Prefixes(seq) == { SubSeq(seq, 1, k) : k \in 0..Len(seq) }

SavePcs == {"save_rlock", "save_snap", "save_open", "save_write"}

\* The data cut inside the value of one of its lines: the lines before it
\* and the key of that line with a part of its value ("name:" for
\* "name: a").  yaml reads a key without a value as the zero value.
CutLines(data) ==
    UNION { { Append(SubSeq(data, 1, k - 1), Line(data[k].key, v)) :
                v \in Prefixes(data[k].val) \ {data[k].val} }
          : k \in 1..Len(data) }

\* What a crash can leave of routes.yaml: the file as it is, or, when a
\* goroutine is inside the write of os.WriteFile, any part of its data:
\* cut at the end of a line, cut inside the value of a line, or cut at a
\* place that leaves text yaml cannot parse (torn).
CrashFiles ==
    {file} \cup
    UNION { { [exists |-> TRUE, lines |-> Overlay(file.lines, p), torn |-> FALSE] :
                p \in Prefixes(Marshal(snap[c])) \cup CutLines(Marshal(snap[c])) }
            \cup
            { [exists |-> TRUE, lines |-> p, torn |-> TRUE] :
                p \in Prefixes(Marshal(snap[c])) \ {Marshal(snap[c])} }
          : c \in {d \in Callers : pc[d] = "save_write"} }

CrashArtifacts ==
    {artifact} \cup
    UNION { { [exists |-> TRUE, text |-> Overlay(artifact.text, p)] :
                p \in Prefixes(generateNginxConfig(snap[c])) }
          : c \in {d \in Callers : pc[d] = "regen_write"} }

\* for each save in progress: the document on disk before it and the one it writes
SavesInProgress ==
    { [old |-> IF pc[c] = "save_write" THEN call[c].old ELSE file,
       new |-> IF pc[c] \in {"save_open", "save_write"}
               THEN [exists |-> TRUE, lines |-> Marshal(snap[c]), torn |-> FALSE]
               ELSE file]
      : c \in {d \in Callers : pc[d] \in SavePcs} }

Crash ==
    /\ mgr = "up"
    /\ ncrash < MaxCrashes
    /\ ncrash' = ncrash + 1
    /\ mgr' = "down"
    /\ file' \in CrashFiles
    /\ artifact' \in CrashArtifacts
    /\ crashInfo' = SavesInProgress
    /\ routes' = EmptyMap
    /\ mu' = Unlocked
    /\ pc' = [c \in Callers |-> "idle"]
    /\ call' = [c \in Callers |-> NoCall]
    /\ snap' = [c \in Callers |-> <<>>]
    /\ lastMut' = [n \in TrackedNames |-> NoRoute]
    /\ saveFailed' = FALSE
    /\ UNCHANGED <<loaded, ncalls>>

\* Manager.load: os.ReadFile, yaml.Unmarshal, then the map is filled under the lock
load(f) == LoadRoutes(Unmarshal(f), EmptyMap)

\* NewManager without the os.IsNotExist exception: every load error fails it
NewManagerFailsOnMissing ==
    /\ mgr = "down"
    /\ \/ /\ file.exists
          /\ Parses(file)
          /\ mgr' = "up"
          /\ routes' = load(file)
       \/ /\ mgr' = "failed"
          /\ UNCHANGED routes
    /\ UNCHANGED <<mu, pc, call, snap, file, artifact, loaded, lastMut, saveFailed,
                   crashInfo, ncalls, ncrash>>

NewManager ==
    /\ mgr = "down"
    /\ \/ /\ ~file.exists
          /\ mgr' = "up"
          /\ routes' = EmptyMap
       \/ /\ file.exists
          /\ Parses(file)
          /\ mgr' = "up"
          /\ routes' = load(file)
       \/ /\ file.exists
          /\ mgr' = "failed"
          /\ UNCHANGED routes
    /\ UNCHANGED <<mu, pc, call, snap, file, artifact, loaded, lastMut, saveFailed,
                   crashInfo, ncalls, ncrash>>

----------------------------------------------------------------------------
\* the steps of the goroutine of caller c after its request started
Step(c) ==
    \/ AddLock(c)
    \/ AddStore(c)
    \/ RemoveLock(c)
    \/ RemoveCheck(c)
    \/ saveRLock(c)
    \/ saveSnapshot(c)
    \/ saveOpen(c)
    \/ saveWrite(c)
    \/ regenRLock(c)
    \/ regenSnapshot(c)
    \/ regenOpen(c)
    \/ regenWrite(c)
    \/ Reload(c)
    \/ ListRLock(c)
    \/ ListRead(c)
    \/ GetRLock(c)
    \/ GetRead(c)
    \/ Respond(c)

\* a request arrives for caller c, its body or name drawn from the given sets
Request(c, bodies, names) ==
    \/ \E route \in bodies : AddRoute(c, route)
    \/ \E name \in names : DeleteRoute(c, name)
    \/ \E name \in names : GetRoute(c, name)
    \/ ListRoutes(c)
    \/ ReloadNginx(c)

\* concurrent clients of one running process
Next ==
    \/ \E c \in Callers : Request(c, RouteInputs, Names)
    \/ \E c \in Callers : Step(c)

Spec == Init /\ [][Next]_vars

\* one client at a time, every request body
NextSeq ==
    \/ Request("c1", AllRoutes, {"a"})
    \/ Step("c1")

SpecSeq == Init /\ [][NextSeq]_vars

\* one client at a time, with crashes of the process and restarts
NextCrash ==
    \/ Request("c1", RouteInputs, Names)
    \/ Step("c1")
    \/ Crash
    \/ NewManager

SpecCrash == Init /\ [][NextCrash]_vars

\* A process that starts with a routes.yaml and a generated file that an
\* earlier run wrote: NewManager has loaded the entries, the generated file
\* and nginx are as that run left them, and lastMut holds the entries as the
\* Adds of that run stored them.
StoredA == Route("a", <<"/", "p", "/">>, <<"t">>, TRUE)
StoredB == Route("b", <<"/", "q", "/">>, <<"t", "/">>, FALSE)
StartSlices == { <<StoredA>>, <<StoredA, StoredB>>, <<StoredB, StoredA>> }

InitLoaded ==
    /\ mgr = "up"
    /\ \E s \in StartSlices :
          /\ file = [exists |-> TRUE, lines |-> Marshal(s), torn |-> FALSE]
          /\ routes = load(file)
          /\ artifact = [exists |-> TRUE, text |-> generateNginxConfig(s)]
          /\ loaded = artifact.text
          /\ lastMut = [n \in TrackedNames |-> IF n \in DOMAIN routes THEN routes[n] ELSE NoRoute]
    /\ mu = Unlocked
    /\ pc = [c \in Callers |-> "idle"]
    /\ call = [c \in Callers |-> NoCall]
    /\ snap = [c \in Callers |-> <<>>]
    /\ saveFailed = FALSE
    /\ crashInfo = {}
    /\ ncalls = 0
    /\ ncrash = 0

\* the request body sent to the restarted process: a name the earlier run
\* stored, with another path and target
LoadedInputs == { Route("a", <<"r">>, <<"t", "/">>, TRUE) }

NextLoaded ==
    \/ \E c \in Callers : Request(c, LoadedInputs, Names)
    \/ \E c \in Callers : Step(c)

SpecLoaded == InitLoaded /\ [][NextLoaded]_vars

\* Concurrent clients under a fair scheduler: a goroutine that can take its
\* next step (the lock is free for it, or its system call or docker exec
\* returns) takes it eventually.
FairInputs == { Route("a", <<"p">>, <<"t">>, TRUE) }

NextFair ==
    \/ \E c \in Callers : Request(c, FairInputs, {"a"})
    \/ \E c \in Callers : Step(c)

SpecFair == Init /\ [][NextFair]_vars /\ \A c \in Callers : WF_vars(Step(c))

----------------------------------------------------------------------------
(* RoutesHandler.HandleRoutes: the dispatch of a request on its URL path   *)
(* and method.  A URL path is given by what follows "/api/v1/routes" in    *)
(* it, as a sequence of "/" and path segments; a segment is one string.    *)

TrimPrefix(s, ch) == IF HasPrefix(s, ch) THEN Tail(s) ELSE s

\* the string that a sequence of at most one segment spells
SegmentName(s) == IF s = <<>> THEN "" ELSE s[1]

Methods == {"GET", "POST", "DELETE", "PUT"}

\* /api/v1/routes, /api/v1/routes/, and the URLs of one segment, with and
\* without a slash after it
UrlPaths ==
    { <<>>, <<"/">>, <<"/", "a">>, <<"/", "a", "/">>, <<"/", "reload">>,
      <<"/", "reload", "/">> }

\* the bodies POSTed: a route named as one can name it, and one whose name
\* is the last segment of the reload URL
HttpInputs ==
    { Route("a", <<"p">>, <<"t">>, FALSE),
      Route("reload", <<"/", "p", "/">>, <<"t">>, TRUE) }

Handled(h, n, s) == [handler |-> h, name |-> n, status |-> s]

\* Which handler serves the request and with which name; status is what is
\* answered when no manager call is made.  DeleteRoute and the GET branch
\* both take the name as the path without its first "/" and its last "/".
HandleRoutesTarget(method, path) ==
    LET name == SegmentName(TrimSuffix(TrimPrefix(path, "/"), "/"))
    IN  IF path = <<>> \/ path = <<"/">>
        THEN CASE method = "GET"  -> Handled("ListRoutes", "", 0)
               [] method = "POST" -> Handled("AddRoute", "", 0)
               [] OTHER           -> Handled("none", "", 405)
        ELSE IF path = <<"/", "reload">>
        THEN IF method = "POST" THEN Handled("ReloadNginx", "", 0)
             ELSE Handled("none", "", 405)
        ELSE CASE method = "DELETE" -> IF name = "" THEN Handled("none", "", 400)
                                       ELSE Handled("Remove", name, 0)
               [] method = "GET"    -> Handled("Get", name, 0)
               [] OTHER             -> Handled("none", "", 405)

\* http.Error without a call of the manager
Refuse(c, status) ==
    /\ MayStart(c)
    /\ ncalls' = ncalls + 1
    /\ call' = Start(c, [NoCall EXCEPT !.op = "Refused", !.status = status])
    /\ pc' = [pc EXCEPT ![c] = "ret"]
    /\ UNCHANGED <<mgr, routes, mu, snap, file, artifact, loaded, lastMut,
                   saveFailed, crashInfo, ncrash>>

HandleRoutes(c, method, path, route) ==
    LET t == HandleRoutesTarget(method, path) IN
    \/ t.handler = "ListRoutes" /\ ListRoutes(c)
    \/ t.handler = "AddRoute" /\ AddRoute(c, route)
    \/ t.handler = "ReloadNginx" /\ ReloadNginx(c)
    \/ t.handler = "Remove" /\ DeleteRoute(c, t.name)
    \/ t.handler = "Get" /\ GetRoute(c, t.name)
    \/ t.handler = "none" /\ Refuse(c, t.status)

\* one client at a time, every method on every URL
NextHttp ==
    \/ \E method \in Methods, path \in UrlPaths, route \in HttpInputs :
          HandleRoutes("c1", method, path, route)
    \/ Step("c1")

SpecHttp == Init /\ [][NextHttp]_vars

----------------------------------------------------------------------------
(* POST /api/v1/logs/sources: LogSourcesHandler.addSource.  The manager of *)
(* log sources is called for its result only: Add and ReloadPromtail each  *)
(* return nil or an error.                                                 *)

\* what addSource answers before it calls the manager
DecodeError(decode, source) ==
    IF decode = "too large" THEN ErrBodyTooLarge
    ELSE IF decode = "invalid" THEN ErrInvalidJSON
    ELSE IF source.Name = "" THEN ErrSourceName
    ELSE IF source.Path = <<>> THEN ErrSourcePath
    ELSE ErrNil

\* the body is decoded and validated
addSource(c, decode, source) ==
    /\ pc[c] = "idle"
    /\ \A d \in Callers : pc[d] = "idle" => Rank[c] <= Rank[d]
    /\ ncalls < MaxCalls
    /\ ncalls' = ncalls + 1
    /\ LET src == IF decode = "decoded" THEN source ELSE NoSource
           cl  == [NoCall EXCEPT !.op = "AddSource", !.source = src, !.name = src.Name]
           e   == DecodeError(decode, source)
       IN  IF e # ErrNil
           THEN /\ call' = [call EXCEPT ![c] =
                              [cl EXCEPT !.err = e,
                                         !.status = IF e = ErrBodyTooLarge THEN 413 ELSE 400]]
                /\ pc' = [pc EXCEPT ![c] = "ret"]
           ELSE /\ call' = [call EXCEPT ![c] = cl]
                /\ pc' = [pc EXCEPT ![c] = "source_add"]
    /\ UNCHANGED <<mgr, routes, mu, snap, file, artifact, loaded, lastMut,
                   saveFailed, crashInfo, ncrash>>

\* h.manager.Add(source)
addSourceAdd(c) ==
    /\ pc[c] = "source_add"
    /\ \/ /\ call' = [call EXCEPT ![c] = Did(c, "add")]
          /\ pc' = [pc EXCEPT ![c] = "source_reload"]
       \/ /\ call' = [call EXCEPT ![c].err = ErrSourceAdd, ![c].status = 500]
          /\ pc' = [pc EXCEPT ![c] = "ret"]
    /\ UNCHANGED <<mgr, routes, mu, snap, file, artifact, loaded, lastMut,
                   saveFailed, crashInfo, ncalls, ncrash>>

\* addSource that answers a failed reload as an error, as the routes handler does
addSourceReloadStrict(c) ==
    /\ pc[c] = "source_reload"
    /\ \/ call' = [call EXCEPT ![c] =
                     [Did(c, "reload") EXCEPT !.status = 201, !.ok = TRUE]]
       \/ call' = [call EXCEPT ![c] =
                     [Did(c, "reload") EXCEPT !.err = ErrPromtailReload, !.status = 500]]
    /\ pc' = [pc EXCEPT ![c] = "ret"]
    /\ UNCHANGED <<mgr, routes, mu, snap, file, artifact, loaded, lastMut,
                   saveFailed, crashInfo, ncalls, ncrash>>

\* h.manager.ReloadPromtail() and the 201 answer, with or without a warning
addSourceReload(c) ==
    /\ pc[c] = "source_reload"
    /\ \/ call' = [call EXCEPT ![c] =
                     [Did(c, "reload") EXCEPT !.status = 201, !.ok = TRUE]]
       \/ call' = [call EXCEPT ![c] =
                     [Did(c, "reload") EXCEPT !.err = ErrPromtailReload, !.status = 201,
                                              !.ok = TRUE, !.warning = TRUE]]
    /\ pc' = [pc EXCEPT ![c] = "ret"]
    /\ UNCHANGED <<mgr, routes, mu, snap, file, artifact, loaded, lastMut,
                   saveFailed, crashInfo, ncalls, ncrash>>

\* concurrent clients of the log-source endpoint
NextLogs ==
    \/ \E c \in Callers, decode \in DecodeResults, source \in SourceInputs :
          addSource(c, decode, source)
    \/ \E c \in Callers : addSourceAdd(c)
    \/ \E c \in Callers : addSourceReload(c)
    \/ \E c \in Callers : Respond(c)

SpecLogs == Init /\ [][NextLogs]_vars

----------------------------------------------------------------------------
(* Properties *)

ValidationErrors == {ErrName, ErrPath, ErrTarget}
IsValid(route) == route.Name # "" /\ route.Path # <<>> /\ route.Target # <<>>

AtReturn(c, op) == pc[c] = "ret" /\ call[c].op = op

\* p with a leading "/" added if it has none and a trailing "/" added if it has none
WithSlashes(p) ==
    (IF p[1] = "/" THEN <<>> ELSE <<"/">>) \o p \o (IF p[Len(p)] = "/" THEN <<>> ELSE <<"/">>)

\* C1: a Get of a name whose last store was Add(e), with no Add or Remove of
\* that name since, finds the name and returns e with Path given its leading
\* and trailing slash.
C1_AddThenGet ==
    \A c \in Callers :
        (AtReturn(c, "Get") /\ call[c].added # NoRoute) =>
            /\ call[c].err = ErrNil
            /\ call[c].out =
                 << [call[c].added EXCEPT !.Path = WithSlashes(call[c].added.Path)] >>

C1_Witness ==
    \E c \in Callers :
        /\ AtReturn(c, "Get")
        /\ call[c].added # NoRoute
        /\ call[c].err = ErrNil
        /\ call[c].out[1].Path # call[c].added.Path

\* C2: an Add of an entry with an empty Name, Path or Target returns at once
\* with a validation error that names a field which is empty, and the step
\* leaves the map, both files and nginx as they were; none of the store,
\* persist, render and reload steps has run for it.
C2_InvalidAddChangesNothing ==
    [][ \A c \in Callers :
          (pc[c] = "idle" /\ call'[c].op = "Add" /\ ~IsValid(call'[c].route)) =>
             /\ pc'[c] = "ret"
             /\ call'[c].err \in ValidationErrors
             /\ call'[c].err = ErrName => call'[c].route.Name = ""
             /\ call'[c].err = ErrPath => call'[c].route.Path = <<>>
             /\ call'[c].err = ErrTarget => call'[c].route.Target = <<>>
             /\ call'[c].did = <<>>
             /\ UNCHANGED <<routes, file, artifact, loaded, mu>> ]_vars

C2_Witness ==
    \E c \in Callers :
        /\ AtReturn(c, "Add")
        /\ call[c].err = ErrTarget
        /\ call[c].route.Target = <<>>
        /\ routes # EmptyMap
        /\ file.exists
        /\ artifact.exists

\* C3: a Remove of a name that is not in the map when it is checked returns
\* the not-found error; none of its steps changes the map, the files or
\* nginx, and none of the store, persist, render and reload steps runs for it.
C3_RemoveAbsentChangesNothing ==
    [][ \A c \in Callers :
          /\ (pc'[c] # pc[c] /\ pc'[c] \in {"rm_lock", "rm_check"}) =>
                UNCHANGED <<routes, file, artifact, loaded>>
          /\ (pc[c] = "rm_check" /\ pc'[c] # pc[c] /\ call[c].name \notin DOMAIN routes) =>
                /\ pc'[c] = "ret"
                /\ call'[c].err = ErrNotFound
                /\ call'[c].did = <<>>
                /\ UNCHANGED <<routes, file, artifact, loaded>> ]_vars

C3_Witness ==
    \E c \in Callers :
        /\ AtReturn(c, "Remove")
        /\ call[c].err = ErrNotFound
        /\ call[c].did = <<>>
        /\ routes # EmptyMap
        /\ call[c].name \notin DOMAIN routes

\* the document f parses and one of its items is r
FileHas(f, r) ==
    /\ f.exists
    /\ Parses(f)
    /\ \E i \in 1..Len(Unmarshal(f)) : Unmarshal(f)[i] = r

\* the generated file g has a location block of route r
ArtifactHas(g, r) ==
    /\ g.exists
    /\ \E i \in 1..Len(g.text) :
          /\ g.text[i].kind = "location"
          /\ g.text[i].name = r.Name
          /\ g.text[i].location = r.Path

PipelineDone == <<"store", "persist", "render", "reload">>

\* C4 (as claimed): an Add whose store, persist and render steps succeeded and
\* whose reload action failed is answered as a success (201), not as an error.
C4_ReloadFailureAnsweredAsSuccess ==
    \A c \in Callers :
        (AtReturn(c, "Add") /\ call[c].did = PipelineDone /\ call[c].err = ErrReload) =>
            call[c].status = 201

\* C5: when the reload action of an Add fails and no other Add or Remove was
\* in flight during the Add, then at the moment the Add returns routes.yaml
\* holds the new entry and the generated nginx file holds a block for it.
C5_FilesUpdatedWhenReloadFails ==
    [][ \A c \in Callers :
          (/\ pc[c] = "reload" /\ pc'[c] = "ret"
           /\ call[c].op = "Add" /\ call'[c].err = ErrReload /\ ~call'[c].conc) =>
             FileHas(file', call[c].arg) /\ ArtifactHas(artifact', call[c].arg) ]_vars

C5_Witness ==
    \E c \in Callers :
        /\ AtReturn(c, "Add")
        /\ call[c].err = ErrReload
        /\ ~call[c].conc
        /\ FileHas(file, call[c].arg)
        /\ ArtifactHas(artifact, call[c].arg)
        /\ loaded = <<>>

\* the errors a pipeline step can return, by the place of the step
StepErrors(p) ==
    CASE p = "save_open"   -> {ErrSaveMkdir, ErrSaveOpen}
      [] p = "save_write"  -> {ErrSaveWrite}
      [] p = "regen_open"  -> {ErrNginxMkdir, ErrNginxOpen}
      [] p = "regen_write" -> {ErrNginxWrite}
      [] p = "reload"      -> {ErrReload}
      [] OTHER             -> {}

MutationKept(c) ==
    IF call[c].op = "Add"
    THEN call[c].name \in DOMAIN routes /\ routes[call[c].name] = call[c].arg
    ELSE call[c].name \notin DOMAIN routes

\* C6: when a persist, render-write or reload step of an Add or Remove fails,
\* the call returns at that step with that step's error, the step leaves the
\* map as it is, and (no other mutation having been in flight) the map holds
\* the upsert or lacks the deleted name: nothing is rolled back.
C6_PipelineFailureKeepsMutation ==
    [][ \A c \in Callers :
          (/\ call[c].op \in MutationOps /\ pc[c] \in PipelinePcs
           /\ pc'[c] = "ret" /\ call'[c].err # ErrNil) =>
             /\ call'[c].err \in StepErrors(pc[c])
             /\ Head(call'[c].did) = "store"
             /\ routes' = routes
             /\ ~call'[c].conc => MutationKept(c)' ]_vars

C6_Witness ==
    \E c \in Callers :
        /\ AtReturn(c, "Add")
        /\ call[c].err = ErrSaveOpen
        /\ ~call[c].conc
        /\ MutationKept(c)
        /\ ~file.exists

IOErrors == {ErrSaveMkdir, ErrSaveOpen, ErrSaveWrite, ErrNginxMkdir, ErrNginxOpen,
             ErrNginxWrite, ErrReload}

Range(seq) == { seq[i] : i \in 1..Len(seq) }

\* C7: two Adds of valid entries with different names that were in flight
\* together, neither name stored again or removed since: neither returns an
\* error other than that of a failed file operation or reload, so without
\* such a failure both return nil; and the map, hence every List, holds both.
C7_ConcurrentAddsBothStored ==
    \A c, d \in Callers :
        (/\ c # d /\ AtReturn(c, "Add") /\ AtReturn(d, "Add")
         /\ IsValid(call[c].route) /\ IsValid(call[d].route)
         /\ call[c].name # call[d].name
         /\ call[c].conc /\ call[d].conc
         /\ lastMut[call[c].name] = call[c].route
         /\ lastMut[call[d].name] = call[d].route) =>
            /\ call[c].err \in {ErrNil} \cup IOErrors
            /\ call[d].err \in {ErrNil} \cup IOErrors
            /\ \A s \in RangeOrders(routes) : {call[c].arg, call[d].arg} \subseteq Range(s)

C7_Witness ==
    \E c, d \in Callers :
        /\ c # d /\ AtReturn(c, "Add") /\ AtReturn(d, "Add")
        /\ call[c].name = "a" /\ call[d].name = "b"
        /\ call[c].conc /\ call[d].conc
        /\ call[c].err = ErrNil /\ call[d].err = ErrNil
        /\ \A s \in RangeOrders(routes) : {call[c].arg, call[d].arg} \subseteq Range(s)

Quiescent == \A c \in Callers : ~InMutation(c)

\* the entries routes.yaml holds, as load would put them in the map
FileEntries == IF file.exists THEN load(file) ELSE EmptyMap

\* C8 (as claimed): whenever no Add or Remove is in flight and no save of a
\* completed Add or Remove failed, routes.yaml holds exactly the entries of
\* the map.
C8_FileMirrorsStore ==
    (mgr = "up" /\ Quiescent /\ ~saveFailed) => (Parses(file) /\ FileEntries = routes)

\* C9 (as claimed): after a crash during a save, routes.yaml parses and is
\* either the complete document that was there before the save or the
\* complete document the save was writing.
C9_CrashLeavesWholeFile ==
    (mgr = "down" /\ crashInfo # {}) =>
        /\ Parses(file)
        /\ \E s \in crashInfo : file \in {s.old, s.new}

\* the set of entries of a slice
Entries(rs) == Range(rs)

\* C10 (as claimed): two render steps on copies of the map that hold the same
\* set of entries generate the same text.
C10_RenderDependsOnSetOnly ==
    \A c, d \in Callers :
        (/\ pc[c] = "regen_open" /\ pc[d] = "regen_open"
         /\ Entries(snap[c]) = Entries(snap[d])) =>
            generateNginxConfig(snap[c]) = generateNginxConfig(snap[d])

\* C11: a call of Reload (POST /api/v1/routes/reload) consists of the reload
\* action alone: the step that starts it and the step in which the reload
\* action succeeds or fails leave the map, routes.yaml and the generated
\* nginx file as they are, and the call returns nil or the reload error
\* having run no store, persist or render step.
C11_ReloadTouchesNothingElse ==
    [][ \A c \in Callers :
          (call'[c].op = "Reload" /\ pc'[c] # pc[c]) =>
             /\ UNCHANGED <<routes, file, artifact, mu>>
             /\ pc'[c] \in {"reload", "ret"}
             /\ pc'[c] = "ret" =>
                   /\ call'[c].did = <<"reload">>
                   /\ call'[c].err \in {ErrNil, ErrReload} ]_vars

C11_Witness ==
    \E c, d \in Callers :
        /\ AtReturn(c, "Reload") /\ call[c].err = ErrNil /\ call[c].status = 200
        /\ AtReturn(d, "Reload") /\ call[d].err = ErrReload /\ call[d].status = 500
        /\ ~artifact.exists

\* C12: a caller that is in the write of routes.yaml, in the write of the
\* generated nginx file or in the reload action holds the lock neither for
\* writing nor for reading; so while a caller stays there, the lock step of
\* a List or Get of another caller can be taken, and the read after it needs
\* nothing more.
C12_NoLockDuringPipeline ==
    \A c \in Callers :
        pc[c] \in PipelinePcs =>
            /\ mu.w # c
            /\ c \notin mu.r
            /\ \A d \in Callers \ {c} :
                   pc[d] \in {"list_rlock", "get_rlock"} => CanRLock

\* a List that arrived while an Add was in its save has returned, and the
\* Add is still where its save opens the file
C12_Witness ==
    \E c, d \in Callers :
        /\ pc[c] = "save_open" /\ call[c].op = "Add"
        /\ AtReturn(d, "List") /\ call[d].duringIO
        /\ call[d].out # <<>>

\* C13: the check step of a Remove of a name that is in the map deletes
\* that name alone and goes on to the pipeline; no step of a Remove changes
\* any other entry or adds one; the Remove returns nil after the whole
\* pipeline or the error of the pipeline step that failed; and a Get of a
\* name whose last store was a Remove, no Add of it since, reports not found.
C13_RemoveDeletesOnlyThatName ==
    [][ \A c \in Callers :
          /\ (call[c].op = "Remove" /\ pc'[c] # pc[c]) =>
                /\ DOMAIN routes' \subseteq DOMAIN routes
                /\ \A n \in DOMAIN routes \ {call[c].name} :
                      n \in DOMAIN routes' /\ routes'[n] = routes[n]
                /\ (pc[c] = "rm_check" /\ call[c].name \in DOMAIN routes) =>
                      /\ call[c].name \notin DOMAIN routes'
                      /\ pc'[c] = "save_rlock"
                      /\ call'[c].did = <<"store">>
                /\ (pc'[c] = "ret" /\ pc[c] # "rm_check") =>
                      /\ Head(call'[c].did) = "store"
                      /\ call'[c].err \in {ErrNil} \cup StepErrors(pc[c])
                      /\ call'[c].err = ErrNil => call'[c].did = PipelineDone
          /\ (pc[c] = "get_read" /\ pc'[c] = "ret" /\ lastMut[call[c].name] = NoRoute) =>
                /\ call'[c].err = ErrNotFound
                /\ call'[c].status = 404 ]_vars

\* a Get has reported not found for a name that the process started with,
\* and the other entry it started with is still in the map
C13_Witness ==
    \E c \in Callers :
        /\ AtReturn(c, "Get") /\ call[c].name = "a"
        /\ call[c].err = ErrNotFound
        /\ DOMAIN routes = {"b"} /\ routes["b"] = StoredB
        /\ ncalls = 2

\* C14: the store step of an Add puts the normalised entry under its Name
\* and leaves every other entry as it is; when the Name was in the map the
\* number of entries stays the same, when it was not the number grows by one.
C14_AddIsUpsert ==
    [][ \A c \in Callers :
          (pc[c] = "add_store" /\ pc'[c] # pc[c]) =>
             LET n == call[c].route.Name IN
             /\ n \in DOMAIN routes'
             /\ routes'[n] = Normalize(call[c].route)
             /\ \A k \in DOMAIN routes \ {n} : k \in DOMAIN routes' /\ routes'[k] = routes[k]
             /\ DOMAIN routes' = DOMAIN routes \cup {n}
             /\ n \in DOMAIN routes => Cardinality(DOMAIN routes') = Cardinality(DOMAIN routes)
             /\ n \notin DOMAIN routes =>
                   Cardinality(DOMAIN routes') = Cardinality(DOMAIN routes) + 1 ]_vars

\* the one request so far, an Add of a stored name, has replaced the entry the
\* process started with; the other entry and the number of entries are as before
C14_Witness ==
    \E c \in Callers :
        /\ AtReturn(c, "Add") /\ call[c].name = "a" /\ ncalls = 1
        /\ routes["a"] = call[c].arg /\ routes["a"] # StoredA
        /\ DOMAIN routes = {"a", "b"} /\ routes["b"] = StoredB

\* the file that save writes for the slice rs when nothing else writes it
Saved(rs) == [exists |-> TRUE, lines |-> Marshal(rs), torn |-> FALSE]

\* C15: for every map the manager can hold and every order in which save
\* can copy it, the document save writes parses, and load of it into an
\* empty map gives a map equal to the first: the same names, and under
\* each name the same Path, Target and StripPrefix.
C15_SaveLoadRoundTrip ==
    \A s \in RangeOrders(routes) :
        /\ Parses(Saved(s))
        /\ load(Saved(s)) = routes

\* an Add has returned nil, the map holds two entries, one of them with
\* StripPrefix set, and routes.yaml is what its save wrote
C15_Witness ==
    \E c \in Callers :
        /\ AtReturn(c, "Add") /\ call[c].err = ErrNil
        /\ DOMAIN routes = {"a", "b"}
        /\ routes["a"].StripPrefix /\ ~routes["b"].StripPrefix
        /\ \E s \in RangeOrders(routes) : file = Saved(s)
        /\ load(file) = routes

\* C16: when the process starts and routes.yaml does not exist, NewManager
\* returns a manager with an empty map; when the file exists and does not
\* parse, NewManager fails; NewManager fails only for a file that exists
\* (it could not be read or parsed); and after a failure there is no
\* manager: no request is served and nothing changes any more.
C16_MissingFileIsEmptyStore ==
    [][ /\ (mgr = "down" /\ mgr' # mgr) =>
              /\ ~file.exists => (mgr' = "up" /\ routes' = EmptyMap)
              /\ (file.exists /\ ~Parses(file)) => mgr' = "failed"
              /\ mgr' = "failed" => file.exists
              /\ mgr' = "up" => routes' = FileEntries
        /\ mgr = "failed" => vars' = vars ]_vars

\* construction has failed on a file that a crash cut inside a line
C16_Witness ==
    /\ mgr = "failed"
    /\ file.exists /\ ~Parses(file)
    /\ routes = EmptyMap

\* C17 (as claimed): in every state in which a manager exists, the state
\* right after NewManager loaded routes.yaml included, the Path of every
\* entry of the map begins with "/" and ends with "/".
C17_StoredPathsHaveSlashes ==
    mgr = "up" =>
        \A n \in DOMAIN routes :
            HasPrefix(routes[n].Path, "/") /\ HasSuffix(routes[n].Path, "/")

\* C18 (as claimed): in every state in which a manager exists, the state
\* right after NewManager loaded routes.yaml included, every entry of the
\* map has a Name that is not empty, and no two entries have the same Name.
C18_StoredNamesNonEmptyUnique ==
    mgr = "up" =>
        /\ \A n \in DOMAIN routes : routes[n].Name # ""
        /\ \A n, k \in DOMAIN routes : n # k => routes[n].Name # routes[k].Name

\* the scenario entry; "blog" and "http://blog:8000" are written as one
\* element each, since only a "/" at either end of a string matters
BlogRoute == Route("blog", <<"blog">>, <<"http://blog:8000">>, TRUE)

\* what the claim says is written after proxy_pass for Target t
RenderedTarget(t, strip) ==
    IF strip
    THEN IF t[Len(t)] = "/" THEN t ELSE Append(t, "/")
    ELSE IF t[Len(t)] = "/" THEN SubSeq(t, 1, Len(t) - 1) ELSE t

\* the block the claim expects in the generated file for the Add of route
ExpectedBlock(route) ==
    [kind |-> "location", name |-> route.Name, location |-> WithSlashes(route.Path),
     proxy_pass |-> RenderedTarget(route.Target, route.StripPrefix)]

C20_SourceReloadFailureIsWarning ==
    \A c \in Callers :
        call[c].op = "AddSource" =>
            /\ pc[c] = "source_reload" => call[c].did = <<"add">>
            /\ "reload" \in Range(call[c].did) => call[c].did = <<"add", "reload">>
            /\ (pc[c] = "ret" /\ call[c].err = ErrPromtailReload) =>
                  /\ call[c].status = 201 /\ call[c].ok /\ call[c].warning
                  /\ call[c].did = <<"add", "reload">>
            /\ (pc[c] = "ret" /\ call[c].err = ErrNil) =>
                  /\ call[c].status = 201 /\ call[c].ok /\ ~call[c].warning
                  /\ call[c].did = <<"add", "reload">>
            /\ (pc[c] = "ret" /\ call[c].err = ErrSourceAdd) =>
                  /\ call[c].status = 500 /\ ~call[c].ok
                  /\ call[c].did = <<>>
            /\ (pc[c] = "ret" /\ call[c].err \notin {ErrNil, ErrPromtailReload}) =>
                  /\ call[c].status >= 400 /\ ~call[c].ok
                  /\ call[c].did = <<>>

\* one addSource has answered 201 with a warning after its reload failed,
\* another has answered 500 after the manager's Add failed
C20_Witness ==
    \E c, d \in Callers :
        /\ AtReturn(c, "AddSource") /\ call[c].err = ErrPromtailReload
        /\ call[c].status = 201 /\ call[c].ok /\ call[c].warning
        /\ AtReturn(d, "AddSource") /\ call[d].err = ErrSourceAdd
        /\ call[d].status = 500 /\ call[d].did = <<>>

\* C21: under a fair scheduler, with every file operation and every reload
\* returning, each caller that is inside a request, an Add or a Remove in
\* particular, reaches its return: no interleaving of List, Get, Add,
\* Remove and Reload leaves a caller waiting for the lock for ever.
C21_MutationsReturn ==
    \A c \in Callers : (pc[c] # "idle") ~> (pc[c] = "ret")

\* an Add and a Remove that were in flight together have both returned
C21_Witness ==
    \E c, d \in Callers :
        /\ AtReturn(c, "Add") /\ call[c].conc
        /\ AtReturn(d, "Remove") /\ call[d].conc
        /\ call[c].err = ErrNil /\ call[d].err = ErrNil

SaveErrors == {ErrSaveMkdir, ErrSaveOpen, ErrSaveWrite}
NginxErrors == {ErrNginxMkdir, ErrNginxOpen, ErrNginxWrite}

\* the steps an Add or Remove has taken when it is at place p
DoneAt(p) ==
    CASE p \in {"add_lock", "add_store", "rm_lock", "rm_check"} -> <<>>
      [] p \in {"save_rlock", "save_snap", "save_open"}         -> <<"store">>
      [] p \in {"save_write", "regen_rlock", "regen_snap", "regen_open"}
                                                                -> <<"store", "persist">>
      [] p \in {"regen_write", "reload"}              -> <<"store", "persist", "render">>
      [] OTHER                                                  -> <<>>

\* C22: an Add or Remove takes its steps in the order check, store, write
\* of routes.yaml, write of the generated file, reload, each one only
\* after those before it succeeded: at every place the steps taken so far
\* are exactly the earlier ones; a call that returned a validation or
\* not-found error took none; one that returned a save error neither
\* touched the generated file nor ran the reload; one that returned an
\* error of the generated file's write ran no reload; and one that returned
\* nil or the reload error took all of them.
C22_PipelineStepsInOrder ==
    \A c \in Callers :
        call[c].op \in MutationOps =>
            /\ pc[c] \notin {"idle", "ret"} => call[c].did = DoneAt(pc[c])
            /\ pc[c] = "ret" =>
                  /\ call[c].err \in ValidationErrors \cup {ErrNotFound} => call[c].did = <<>>
                  /\ call[c].err \in {ErrSaveMkdir, ErrSaveOpen} => call[c].did = <<"store">>
                  /\ call[c].err = ErrSaveWrite => call[c].did = <<"store", "persist">>
                  /\ call[c].err \in {ErrNginxMkdir, ErrNginxOpen} =>
                        call[c].did = <<"store", "persist">>
                  /\ call[c].err = ErrNginxWrite =>
                        call[c].did = <<"store", "persist", "render">>
                  /\ call[c].err \in {ErrNil, ErrReload} => call[c].did = PipelineDone
                  /\ call[c].err \in {ErrNil} \cup ValidationErrors \cup {ErrNotFound}
                                        \cup SaveErrors \cup NginxErrors \cup {ErrReload}

\* the first request, an Add, returned the error of the write of
\* routes.yaml: the generated file was never written and nginx never reloaded
C22_Witness ==
    \E c \in Callers :
        /\ AtReturn(c, "Add") /\ ncalls = 1
        /\ call[c].err = ErrSaveWrite
        /\ call[c].did = <<"store", "persist">>
        /\ ~artifact.exists /\ loaded = <<>>

\* the location blocks of the generated file g
Blocks(g) == { g.text[i] : i \in { j \in 1..Len(g.text) : g.text[j].kind = "location" } }

\* the document f and the generated file g are the writing of one copy of
\* the map: f is a complete document with one item per name, and g has the
\* header and one block for each item of f and nothing else
FromOneSnapshot(f, g) ==
    /\ f.exists /\ Parses(f)
    /\ LET s == Unmarshal(f) IN
          /\ \A i, j \in 1..Len(s) : i # j => s[i].Name # s[j].Name
          /\ f.lines = Marshal(s)
          /\ g.exists
          /\ Len(g.text) = Len(s) + 1
          /\ g.text[1] = HeaderBlock
          /\ Blocks(g) = { LocationBlock(s[i]) : i \in 1..Len(s) }

\* C23 (as claimed): when two Adds or Removes that were in flight together
\* have both returned nil, routes.yaml and the generated nginx file hold
\* one and the same copy of the map.
C23_FinalFilesFromOnePipeline ==
    \A c, d \in Callers :
        (/\ c # d
         /\ AtReturn(c, call[c].op) /\ call[c].op \in MutationOps
         /\ AtReturn(d, call[d].op) /\ call[d].op \in MutationOps
         /\ call[c].conc /\ call[d].conc
         /\ call[c].err = ErrNil /\ call[d].err = ErrNil) =>
            FromOneSnapshot(file, artifact)

\* the places inside Lock()..Unlock() of Add and Remove, and inside
\* RLock()..RUnlock() of List, Get, save and regenerateNginx
WritePcs == {"add_store", "rm_check"}
ReadPcs == {"list_read", "get_read", "save_snap", "regen_snap"}

\* C24: at no time are two callers inside the locked sections of Add or
\* Remove together, and at no time is a caller inside the read of List or
\* Get or inside the copy loop of save or regenerateNginx while another is
\* inside the locked section of an Add or Remove; a caller is inside such
\* a section exactly when it holds the lock in that mode.
C24_ReaderWriterExclusion ==
    /\ \A c, d \in Callers : (pc[c] \in WritePcs /\ pc[d] \in WritePcs) => c = d
    /\ \A c, d \in Callers : ~(pc[c] \in WritePcs /\ pc[d] \in ReadPcs)
    /\ \A c \in Callers : (pc[c] \in WritePcs) <=> (mu.w = c)
    /\ \A c \in Callers : (pc[c] \in ReadPcs) <=> (c \in mu.r)
    /\ mu.w # NoCaller => mu.r = {}

\* a List and a Get are reading the map together, both holding the read lock
C24_Witness ==
    \E c, d \in Callers :
        /\ pc[c] = "list_read" /\ pc[d] = "get_read"
        /\ mu.r = {c, d} /\ mu.w = NoCaller

\* caller c has returned from an Add or Remove whose reload failed, no other
\* Add or Remove was in flight during it and none has started since
EndedWithFailedReload(c) ==
    /\ pc[c] = "ret" /\ call[c].op \in MutationOps
    /\ call[c].err = ErrReload
    /\ ~call[c].conc /\ ~call[c].superseded

\* the configuration text holds what the mutation of caller c did: the block
\* of the entry it added, or no block of the name it removed
HasEffectOf(text, c) ==
    IF call[c].op = "Add"
    THEN \E i \in 1..Len(text) : text[i] = LocationBlock(call[c].arg)
    ELSE \A i \in 1..Len(text) : text[i].name # call[c].name

\* C25: the step in which a Reload() succeeds makes nginx run exactly the
\* generated file as it is on disk at that moment, and if an Add or Remove
\* ended with a failed reload and no Add or Remove ran beside or after it,
\* that text holds the effect of that mutation; the step in which a
\* Reload() fails leaves nginx as it was; and nginx changes its
\* configuration in no step other than a successful reload.
C25_NextReloadLoadsArtifact ==
    [][ /\ \A d \in Callers :
              (pc[d] = "reload" /\ pc'[d] = "ret" /\ call[d].op = "Reload") =>
                 /\ call'[d].err = ErrNil =>
                       /\ loaded' = artifact.text
                       /\ \A c \in Callers \ {d} :
                             EndedWithFailedReload(c) => HasEffectOf(loaded', c)
                 /\ call'[d].err # ErrNil => loaded' = loaded
        /\ loaded' # loaded =>
              \E d \in Callers :
                  pc[d] = "reload" /\ pc'[d] = "ret" /\ call'[d].err = ErrNil ]_vars

\* a Remove ended with a failed reload, and a later Reload() has made nginx
\* run the generated file, which no longer has the block of the removed name
C25_Witness ==
    \E c, d \in Callers :
        /\ c # d
        /\ EndedWithFailedReload(c) /\ call[c].op = "Remove" /\ call[c].name = "a"
        /\ AtReturn(d, "Reload") /\ call[d].err = ErrNil
        /\ loaded = artifact.text
        /\ HasEffectOf(loaded, c)
        /\ ncalls = 2

\* the position of a place in the code of a request: every step of a call
\* goes to a later place
PcRank(p) ==
    CASE p = "idle" -> 0
      [] p \in {"add_lock", "rm_lock", "list_rlock", "get_rlock"} -> 1
      [] p \in {"add_store", "rm_check", "list_read", "get_read"} -> 2
      [] p = "save_rlock" -> 3
      [] p = "save_snap" -> 4
      [] p = "save_open" -> 5
      [] p = "save_write" -> 6
      [] p = "regen_rlock" -> 7
      [] p = "regen_snap" -> 8
      [] p = "regen_open" -> 9
      [] p = "regen_write" -> 10
      [] p = "reload" -> 11
      [] OTHER -> 12

\* C26: nothing is retried.  Every step of a call goes forward in the code
\* and no call comes back to a place it has left, so the write of
\* routes.yaml, the write of the generated file and the reload action are
\* each taken at most once per call; a call that has returned does nothing
\* more; and the reload action is run only by a caller at the reload of its
\* own Add, Remove or Reload() call.
C26_NothingIsRetried ==
    [][ \A c \in Callers :
          /\ pc'[c] # pc[c] =>
                \/ pc[c] = "ret" /\ pc'[c] = "idle"
                \/ pc[c] # "ret" /\ PcRank(pc'[c]) > PcRank(pc[c])
          /\ (call'[c].did # call[c].did /\ pc'[c] # "idle") =>
                /\ pc'[c] # pc[c] /\ pc[c] # "ret"
                /\ \E x \in {"store", "persist", "render", "reload"} \ Range(call[c].did) :
                      call'[c].did = Append(call[c].did, x)
          /\ (\/ loaded' # loaded
              \/ (/\ Len(call'[c].did) > Len(call[c].did)
                  /\ call'[c].did[Len(call'[c].did)] = "reload")) =>
                \E d \in Callers :
                    /\ pc[d] = "reload" /\ pc'[d] = "ret"
                    /\ call[d].op \in MutationOps \cup {"Reload"} ]_vars

\* an Add has returned the reload error after one reload attempt; the
\* generated file has its block and nginx still runs its old configuration
C26_Witness ==
    \E c \in Callers :
        /\ AtReturn(c, "Add") /\ call[c].err = ErrReload
        /\ call[c].did = PipelineDone
        /\ ArtifactHas(artifact, call[c].arg)
        /\ loaded # artifact.text

\* C27 (as claimed): after the step in which a caller's write of the
\* generated file succeeds, the file holds the header and exactly one block
\* for each entry of the copy of the map that the caller took, and no block
\* of any other entry.
C27_RenderIsWholesale ==
    [][ \A c \in Callers :
          (pc[c] = "regen_write" /\ pc'[c] = "reload") =>
             /\ Len(artifact'.text) = Len(snap[c]) + 1
             /\ Blocks(artifact') = { LocationBlock(snap[c][i]) : i \in 1..Len(snap[c]) } ]_vars

\* no request is being served
NoCallInFlight == \A c \in Callers : pc[c] \in {"idle", "ret"}

\* C28: with one caller at a time and no failed save since the process
\* started, when the process stops while no request is being served, the
\* routes.yaml it leaves parses and holds exactly the entries of the map (or
\* does not exist and the map is empty); and the manager constructed on
\* restart holds exactly the entries of that file.  So the map after the
\* restart equals the map before it.
C28_RestartRestoresStore ==
    [][ /\ (mgr = "up" /\ mgr' = "down" /\ NoCallInFlight /\ ~saveFailed) =>
              /\ file' = file
              /\ IF file.exists THEN Parses(file) /\ load(file) = routes
                 ELSE routes = EmptyMap
        /\ (mgr = "down" /\ mgr' = "up") =>
              routes' = (IF file.exists THEN load(file) ELSE EmptyMap) ]_vars

\* the process was stopped between requests and restarted, and the new
\* manager holds the two entries that were added before
C28_Witness ==
    /\ mgr = "up" /\ ncrash = 1 /\ crashInfo = {}
    /\ DOMAIN routes = {"a", "b"}
    /\ routes["a"].Path = <<"/", "p", "/">> /\ routes["a"].StripPrefix
    /\ routes = FileEntries

\* the names other than n whose entry in the map has the Path p
SamePath(n, p) == { k \in DOMAIN routes \ {n} : routes[k].Path = p }

\* C29: an Add of a valid entry returns no error other than that of a
\* failed file operation or reload, whatever Paths the map holds; and when
\* an Add returned nil, with no other Add or Remove beside or after it, its
\* entry is in the map together with every entry of another name that has
\* the same Path, and the generated file has a block for each of them.
C29_SamePathIsAccepted ==
    \A c \in Callers :
        (AtReturn(c, "Add") /\ IsValid(call[c].route)) =>
            /\ call[c].err \in {ErrNil} \cup IOErrors
            /\ (call[c].err = ErrNil /\ ~call[c].conc /\ ~call[c].superseded) =>
                  /\ call[c].name \in DOMAIN routes
                  /\ routes[call[c].name] = call[c].arg
                  /\ ArtifactHas(artifact, call[c].arg)
                  /\ \A k \in SamePath(call[c].name, call[c].arg.Path) :
                        ArtifactHas(artifact, routes[k])

\* the Add of b returned nil while a is stored with the same Path /p/;
\* both are in the map and the generated file has a block for each
C29_Witness ==
    \E c \in Callers :
        /\ AtReturn(c, "Add") /\ call[c].err = ErrNil /\ call[c].name = "b"
        /\ ~call[c].conc /\ ~call[c].superseded
        /\ SamePath("b", call[c].arg.Path) = {"a"}
        /\ ArtifactHas(artifact, routes["a"]) /\ ArtifactHas(artifact, routes["b"])
        /\ Len(artifact.text) = 3

\* every request made so far has returned and its answer is still at hand,
\* at least one of them was an Add or Remove, and each Add and Remove
\* returned nil
AllReturnedNil ==
    /\ NoCallInFlight
    /\ Cardinality({ c \in Callers : pc[c] = "ret" }) = ncalls
    /\ \E c \in Callers : pc[c] = "ret" /\ call[c].op \in MutationOps
    /\ \A c \in Callers :
          (pc[c] = "ret" /\ call[c].op \in MutationOps) => call[c].err = ErrNil

\* C30 (as claimed): when no Add, Remove or Reload is in flight and every
\* completed Add and Remove returned nil, the configuration nginx loaded
\* last is the rendering of exactly the entries of the map, in some order.
C30_LoadedIsRenderingOfStore ==
    AllReturnedNil => \E s \in RangeOrders(routes) : loaded = generateNginxConfig(s)


\* C31 (as claimed): no caller runs the reload action while another caller
\* is between the open and the end of its write of the generated nginx
\* file, so nginx is never told to read a file that is partly written.
C31_NoReloadDuringArtifactWrite ==
    [][ \A d \in Callers :
          (pc[d] = "reload" /\ pc'[d] = "ret") =>
             \A c \in Callers \ {d} : pc[c] # "regen_write" ]_vars


\* caller c is past the check of its Remove and deleted the name
Deleted(c) == call[c].op = "Remove" /\ call[c].did # <<>>

\* caller c is past the check of its Remove and got the not-found error
NotFound(c) == AtReturn(c, "Remove") /\ call[c].err = ErrNotFound /\ call[c].did = <<>>

\* the only requests made so far are a Remove(n) by c and a Remove(n) by d
TwoRemovesOf(c, d, n) ==
    /\ c # d /\ ncalls = 2
    /\ call[c].op = "Remove" /\ call[c].name = n
    /\ call[d].op = "Remove" /\ call[d].name = n

\* C32: when the only two requests are Removes of one name that was in the
\* map when they started, at most one of them passes the existence check
\* and deletes; one that got the not-found error got it after the other
\* had deleted; once both are past the check, exactly one has deleted and
\* the other has the not-found error; and the name is in the map exactly
\* as long as none has deleted.
C32_RemoveCheckAndDeleteAtomic ==
    \A c, d \in Callers :
        TwoRemovesOf(c, d, StoredA.Name) =>
            /\ ~(Deleted(c) /\ Deleted(d))
            /\ NotFound(c) => Deleted(d)
            /\ (pc[c] \notin {"rm_lock", "rm_check"} /\ pc[d] \notin {"rm_lock", "rm_check"}) =>
                  (Deleted(c) /\ NotFound(d)) \/ (Deleted(d) /\ NotFound(c))
            /\ (StoredA.Name \in DOMAIN routes) <=> ~(Deleted(c) \/ Deleted(d))

\* two Removes of a were in flight together; one deleted a and is
\* in its pipeline, the other has returned the not-found error
C32_Witness ==
    \E c, d \in Callers :
        /\ TwoRemovesOf(c, d, "a")
        /\ call[c].conc /\ call[d].conc
        /\ Deleted(c) /\ pc[c] = "save_rlock"
        /\ NotFound(d)
        /\ "a" \notin DOMAIN routes


\* C33 (as claimed): a DELETE is answered 404 only when the name was absent
\* from the map at the check of Remove; a Remove that deleted the entry and
\* then failed in the write of routes.yaml, in the write of the generated
\* file or in the reload is answered with another status.
C33_NotFoundOnlyWhenAbsent ==
    \A c \in Callers :
        (AtReturn(c, "Remove") /\ call[c].status = 404) =>
            call[c].err = ErrNotFound /\ call[c].did = <<>>


\* C34 (as claimed): the route in the body of a 201 answer to POST
\* /api/v1/routes equals the entry stored under that name, normalised Path
\* included.
C34_EchoEqualsStored ==
    \A c \in Callers :
        (AtReturn(c, "Add") /\ call[c].status = 201) =>
            /\ call[c].name \in DOMAIN routes
            /\ ResponseRoute(c) = routes[call[c].name]


\* the URL of the route named n: /api/v1/routes/{n}
UrlOf(n) == <<"/", n>>

\* C35 (as claimed): for every name under which a POST has stored a route,
\* GET /api/v1/routes/{name} is served by Manager.Get with that name and
\* DELETE /api/v1/routes/{name} by Manager.Remove with that name.
C35_StoredNamesAreAddressable ==
    \A n \in DOMAIN routes :
        /\ HandleRoutesTarget("GET", UrlOf(n)) = Handled("Get", n, 0)
        /\ HandleRoutesTarget("DELETE", UrlOf(n)) = Handled("Remove", n, 0)


\* C36: in every state each entry of the map is filed under its own Name:
\* routes[k].Name = k for every key k, whether the entry was stored by an
\* Add, was left by a Remove of another name, or was filed by the load at
\* startup (an item without a name included, which is filed under "").
C36_EntriesFiledUnderOwnName ==
    \A k \in DOMAIN routes : routes[k].Name = k

\* the restarted process loaded a from routes.yaml and an Add has stored b
\* beside it
C36_Witness ==
    /\ mgr = "up" /\ ncrash = 1
    /\ DOMAIN routes = {"a", "b"}
    /\ routes["a"].Name = "a" /\ routes["b"].Name = "b"
    /\ call["c1"].op = "Add" /\ call["c1"].name = "b" /\ pc["c1"] = "save_rlock"


\* C37: in the step in which an Add stores its entry, a given Path that
\* already begins and ends with "/" (the one-character Path "/" included)
\* is stored as it was given; a given Path equal to the Path that the map
\* holds under that name is stored as that same Path; and the Path stored
\* is one that a further normalisation leaves as it is.
C37_NormalizationIdempotentMinimal ==
    [][ \A c \in Callers :
          (pc[c] = "add_store" /\ pc'[c] = "save_rlock") =>
             LET given  == call[c].route.Path
                 stored == routes'[call[c].name].Path
             IN  /\ (HasPrefix(given, "/") /\ HasSuffix(given, "/")) => stored = given
                 /\ (call[c].name \in DOMAIN routes /\ given = routes[call[c].name].Path) =>
                        stored = given
                 /\ NormalizePath(stored) = stored ]_vars

\* a was stored with Path /p/ and written to routes.yaml, and an Add of a
\* with the Path /p/ has stored /p/ again
C37_Witness ==
    /\ pc["c1"] = "save_rlock" /\ call["c1"].op = "Add" /\ ncalls = 2
    /\ call["c1"].route.Path = <<"/", "p", "/">>
    /\ routes["a"].Path = <<"/", "p", "/">>
    /\ file.exists /\ Parses(file)
    /\ \E i \in 1..Len(Unmarshal(file)) :
          Unmarshal(file)[i].Name = "a" /\ Unmarshal(file)[i].Path = <<"/", "p", "/">>


\* caller c is inside Lock()..Unlock() or RLock()..RUnlock()
InMapAccess(c) == pc[c] \in WritePcs \cup ReadPcs

====
